---- MODULE Spec2Model ----
(***************************************************************************)
(* Dominance analysis of sonatina's codegen crate                          *)
(* (crates/codegen/src/domtree.rs): DomTree::compute (the iterative        *)
(* Cooper-Harvey-Kennedy algorithm), DomTree::compute_df, the DomTree      *)
(* queries and DominatorTreeTraversable.  The control-flow graph is the    *)
(* external collaborator: a predecessor list per block and a depth-first   *)
(* post-order traversal from the entry block.                              *)
(***************************************************************************)
EXTENDS Integers, Sequences, FiniteSets, TLC

\* ------------------------------------------------------------------ bounds
NumBlocks == 4
MaxEdges == 5
ReuseEdges == 3
MaxViewCalls == 2

Blocks == 1..NumBlocks

\* PackedOption<BlockId>'s reserved "none" value; no block has this id.
None == 0

VARIABLES
    entry,      \* ControlFlowGraph: the entry block, None for a function with no blocks
    preds,      \* ControlFlowGraph: preds[b] is the predecessor list of b, in iteration order
    doms,       \* DomTree.doms
    rpo,        \* DomTree.rpo
    rpo_nums,   \* compute's local rpo_nums
    changed,    \* compute's local changed
    idx,        \* compute's position in `for &block in self.rpo.iter().skip(1)` (1-based)
    pc,         \* "idle": no compute yet or cleared; "loop": inside compute; "computed"
    df,         \* the DFSet last returned by compute_df (dropped when compute runs again)
    dfDone,     \* compute_df has returned since the last compute
    children,   \* DominatorTreeTraversable.children
    viewCalls,  \* DominatorTreeTraversable::compute calls since the view was new or cleared
    viewStale,  \* the DomTree was recomputed or cleared after the view was filled
    first       \* history: the results of the first complete analysis of a snapshot

vars == <<entry, preds, doms, rpo, rpo_nums, changed, idx, pc, df, dfDone,
          children, viewCalls, viewStale, first>>

cfgVars == <<entry, preds>>
domVars == <<doms, rpo, rpo_nums, changed, idx, pc>>
viewVars == <<children, viewCalls, viewStale>>

\* ------------------------------------------------------------ generic helpers
RECURSIVE Reverse(_)
Reverse(s) == IF s = <<>> THEN <<>> ELSE Append(Reverse(Tail(s)), Head(s))

Range(s) == {s[i] : i \in 1..Len(s)}

RECURSIVE Perms(_)
Perms(S) ==
    IF S = {} THEN {<<>>}
    ELSE UNION {{<<x>> \o p : p \in Perms(S \ {x})} : x \in S}

\* position of x in s, 0 when absent
IndexOf(s, x) == IF x \in Range(s) THEN CHOOSE i \in 1..Len(s) : s[i] = x ELSE 0

\* ------------------------------------------------- the control-flow graph
AllEdges == Blocks \X Blocks

RECURSIVE EdgeSets(_)
EdgeSets(k) ==
    IF k = 0 THEN {{}}
    ELSE LET S == EdgeSets(k - 1)
         IN  S \cup {s \cup {e} : s \in S, e \in AllEdges}

PredSet(E, b) == {e[1] : e \in {x \in E : x[2] = b}}

RECURSIVE PredOrders(_, _)
PredOrders(E, k) ==
    IF k = 0 THEN {<<>>}
    ELSE {Append(f, p) : f \in PredOrders(E, k - 1), p \in Perms(PredSet(E, k))}

NoPreds == [b \in Blocks |-> <<>>]

preds_of(block) == preds[block]
pred_num_of(block) == Len(preds[block])
succs_of(block) == {s \in Blocks : block \in Range(preds[s])}
EdgesOf(p) == {e \in AllEdges : e[1] \in Range(p[e[2]])}

\* Depth-first post-order from the entry; successors are tried in ascending id.
RECURSIVE DfsFrom(_, _, _)
DfsFrom(b, k, st) ==
    IF k > NumBlocks
    THEN [seen |-> st.seen, post |-> Append(st.post, b)]
    ELSE IF k \in succs_of(b) /\ k \notin st.seen
         THEN DfsFrom(b, k + 1,
                      DfsFrom(k, 1, [seen |-> st.seen \cup {k}, post |-> st.post]))
         ELSE DfsFrom(b, k + 1, st)

post_order ==
    IF entry = None THEN <<>>
    ELSE DfsFrom(entry, 1, [seen |-> {entry}, post |-> <<>>]).post

\* ------------------------------------------------------------------ DomTree
\* SecondaryMap<BlockId, PackedOption<BlockId>>: every key reads as the default, none.
ClearedDoms == [b \in Blocks |-> None]

\* An unwrap of none aborts the call.
Panic == -1
\* A loop that no longer makes progress never returns.
Hang == -2

\* rpo_nums[block] = (block_num - i) as u32 for the i-th (0-based) block of rpo;
\* every other key reads as the default, 0.
RpoNums(r) ==
    [b \in Blocks |-> IF b \in Range(r) THEN Len(r) - (IndexOf(r, b) - 1) ELSE 0]

unwrap(o) == IF o = None THEN Panic ELSE o

\* The loops of DomTree::intersect over the partial tree in doms.  A walk of more
\* than 2 * NumBlocks steps has entered a cycle of doms and goes on for ever.
RECURSIVE IntersectWalk(_, _, _)
IntersectWalk(b1, b2, steps) ==
    IF b1 = Panic \/ b2 = Panic THEN Panic
    ELSE IF b1 = b2 THEN b1
    ELSE IF steps > 2 * NumBlocks THEN Hang
    ELSE IF rpo_nums[b1] < rpo_nums[b2] THEN IntersectWalk(unwrap(doms[b1]), b2, steps + 1)
    ELSE IF rpo_nums[b2] < rpo_nums[b1] THEN IntersectWalk(b1, unwrap(doms[b2]), steps + 1)
    ELSE Hang

\* mutant: the argument of the lower rank is returned, the one farther from the entry
intersect_lower_rank(b1, b2) == IF rpo_nums[b1] < rpo_nums[b2] THEN b1 ELSE b2

\* mutant: the first block is returned without the walk to the common ancestor
intersect_no_walk(b1, b2) == b1

intersect(b1, b2) == IntersectWalk(b1, b2, 0)

\* mutant: the first predecessor is taken whether or not it has a recorded dominator
FindProcessedAny(ps) == IF ps = <<>> THEN None ELSE Head(ps)

\* cfg.preds_of(block).find(|&&pred| self.doms[pred].is_some()), None when no such pred
RECURSIVE FindProcessed(_)
FindProcessed(ps) ==
    IF ps = <<>> THEN None
    ELSE IF doms[Head(ps)] # None THEN Head(ps)
    ELSE FindProcessed(Tail(ps))

processed_pred(block) == FindProcessed(preds_of(block))

\* mutant: the other recorded predecessors are not folded into the first one
FoldPredsSeedOnly(ps, pp, acc) == acc

\* the fold of lines 94-98 over the predecessors ps, starting from acc
RECURSIVE FoldPreds(_, _, _)
FoldPreds(ps, pp, acc) ==
    IF ps = <<>> \/ acc \in {Panic, Hang} THEN acc
    ELSE IF Head(ps) # pp /\ doms[Head(ps)] # None
         THEN FoldPreds(Tail(ps), pp, intersect(acc, Head(ps)))
         ELSE FoldPreds(Tail(ps), pp, acc)

new_dom(block) == FoldPreds(preds_of(block), processed_pred(block), processed_pred(block))

\* mutant: every visit of a block with a recorded predecessor counts as a change
DomDiffersAlways(nd, block) == TRUE

\* `Some(new_dom) != self.doms[block].expand()`
DomDiffers(nd, block) == nd # doms[block]

\* ------------------------------------------------------------ DomTree queries
\* idom_of indexes self.rpo[0]: out of bounds when rpo is empty.
idom_of_panics == Len(rpo) = 0

idom_of(block) ==
    IF Len(rpo) > 0 /\ rpo[1] = block THEN None ELSE doms[block]

is_reachable(block) == idom_of(block) # None

\* mutant: only the recorded immediate dominator is compared, the chain is not walked
strictly_dominates_direct(block1, block2) == idom_of(block2) = block1

RECURSIVE strictly_dominates(_, _)
strictly_dominates(block1, block2) ==
    LET block == idom_of(block2)
    IN  IF block = None THEN FALSE
        ELSE IF block = block1 THEN TRUE
        ELSE strictly_dominates(block1, block)

dominates(block1, block2) ==
    IF block1 = block2 THEN TRUE ELSE strictly_dominates(block1, block2)

\* ---------------------------------------------------------------- compute_df
EmptyDF == [b \in Blocks |-> {}]

\* the while loop of lines 117-120; it leaves once it has gone round a cycle of doms
\* (the code then never returns: RunnerHangs)
RECURSIVE RunnerWalk(_, _, _, _)
RunnerWalk(runner, block, d, steps) ==
    IF steps <= NumBlocks /\ runner # doms[block] /\ is_reachable(runner)
    THEN RunnerWalk(doms[runner], block, [d EXCEPT ![runner] = @ \cup {block}], steps + 1)
    ELSE d

\* mutant: the block is added to the predecessor's set only, without the walk up
DfWalkNoClimb(runner, block, d) ==
    IF runner # doms[block] /\ is_reachable(runner)
    THEN [d EXCEPT ![runner] = @ \cup {block}]
    ELSE d

DfWalk(runner, block, d) == RunnerWalk(runner, block, d, 0)

RECURSIVE RunnerHangs(_, _, _)
RunnerHangs(runner, block, steps) ==
    /\ runner # doms[block]
    /\ is_reachable(runner)
    /\ (steps > NumBlocks \/ RunnerHangs(doms[runner], block, steps + 1))

RECURSIVE DfPreds(_, _, _)
DfPreds(ps, block, d) ==
    IF ps = <<>> THEN d
    ELSE DfPreds(Tail(ps), block, DfWalk(Head(ps), block, d))

\* mutant: the test of the predecessor count is left out
DfBlockNoMergeTest(block, d) == DfPreds(preds_of(block), block, d)

DfBlock(block, d) ==
    IF pred_num_of(block) < 2 THEN d ELSE DfPreds(preds_of(block), block, d)

RECURSIVE DfBlocks(_, _)
DfBlocks(i, d) ==
    IF i > Len(rpo) THEN d ELSE DfBlocks(i + 1, DfBlock(rpo[i], d))

compute_df == DfBlocks(1, EmptyDF)

compute_df_hangs ==
    \E i \in 1..Len(rpo) :
        /\ pred_num_of(rpo[i]) >= 2
        /\ \E j \in 1..Len(preds_of(rpo[i])) : RunnerHangs(preds_of(rpo[i])[j], rpo[i], 0)

in_frontier_of(block, of) == block \in df[of]
frontier_num_of(of) == Cardinality(df[of])

\* ------------------------------------------------- DominatorTreeTraversable
EmptyChildren == [b \in Blocks |-> <<>>]

\* mutant: the child is put in front of the list instead of at its end
PushChildFront(block, ch) ==
    IF idom_of(block) # None
    THEN [ch EXCEPT ![idom_of(block)] = <<block>> \o @]
    ELSE ch

PushChild(block, ch) ==
    IF idom_of(block) # None
    THEN [ch EXCEPT ![idom_of(block)] = Append(@, block)]
    ELSE ch

RECURSIVE PushChildren(_, _)
PushChildren(i, ch) ==
    IF i > Len(rpo) THEN ch ELSE PushChildren(i + 1, PushChild(rpo[i], ch))

children_of(block) == children[block]

\* ------------------------------------------------------------------ history
NoFirst == [set |-> FALSE, entry |-> None, preds |-> NoPreds, rpo |-> <<>>,
            idom |-> ClearedDoms, df |-> EmptyDF, other |-> FALSE]

SameCfg == entry = first.entry /\ preds = first.preds

IdomMap == [b \in Blocks |-> idom_of(b)]

\* -------------------------------------------------------------------- Init
Init ==
    /\ \/ entry = None /\ preds = NoPreds
       \/ /\ entry = 1
          /\ \E E \in EdgeSets(MaxEdges) : preds \in PredOrders(E, NumBlocks)
    /\ doms = ClearedDoms
    /\ rpo = <<>>
    /\ rpo_nums = [b \in Blocks |-> 0]
    /\ changed = FALSE
    /\ idx = 0
    /\ pc = "idle"
    /\ df = EmptyDF
    /\ dfDone = FALSE
    /\ children = EmptyChildren
    /\ viewCalls = 0
    /\ viewStale = FALSE
    /\ first = NoFirst

\* ----------------------------------------------------------------- actions
\* what DomTree::compute leaves of its locals when it returns
LocalsGone ==
    /\ rpo_nums' = [b \in Blocks |-> 0]
    /\ changed' = FALSE
    /\ idx' = 0

ViewOutdated == viewStale' = (viewStale \/ viewCalls > 0)

\* DomTree::clear
Clear ==
    /\ pc \in {"idle", "computed"}
    /\ doms' = ClearedDoms
    /\ rpo' = <<>>
    /\ pc' = "idle"
    /\ df' = EmptyDF
    /\ dfDone' = FALSE
    /\ ViewOutdated
    /\ UNCHANGED <<cfgVars, rpo_nums, changed, idx, children, viewCalls, first>>

\* DomTree::compute, lines 60-85: clear, the RPO, the ranks, the seed, and the
\* entry into the first pass; returns at once when there is no block.
\* mutant: the entries of the previous run are not cleared
SeedDomsKeep(r) == IF r = <<>> THEN doms ELSE [doms EXCEPT ![r[1]] = r[1]]

SeedDoms(r) == IF r = <<>> THEN ClearedDoms ELSE [ClearedDoms EXCEPT ![r[1]] = r[1]]

ComputeStart ==
    /\ pc \in {"idle", "computed"}
    /\ LET r == Reverse(post_order)
       IN  /\ rpo' = r
           /\ doms' = SeedDoms(r)
           /\ IF r = <<>>
              THEN pc' = "computed" /\ LocalsGone
              ELSE /\ pc' = "loop"
                   /\ rpo_nums' = RpoNums(r)
                   /\ changed' = FALSE
                   /\ idx' = 2
    /\ df' = EmptyDF
    /\ dfDone' = FALSE
    /\ ViewOutdated
    /\ UNCHANGED <<cfgVars, children, viewCalls, first>>

\* one iteration of `for &block in self.rpo.iter().skip(1)`, lines 86-103
ComputeStep ==
    /\ pc = "loop"
    /\ idx <= Len(rpo)
    /\ LET block == rpo[idx]
       IN  IF processed_pred(block) = None
           THEN /\ idx' = idx + 1
                /\ UNCHANGED <<doms, changed, pc>>
           ELSE LET nd == new_dom(block)
                IN  IF nd \in {Panic, Hang}
                    THEN /\ pc' = (IF nd = Panic THEN "panic" ELSE "hang")
                         /\ UNCHANGED <<doms, changed, idx>>
                    ELSE /\ idx' = idx + 1
                         /\ pc' = pc
                         /\ IF DomDiffers(nd, block)
                            THEN changed' = TRUE /\ doms' = [doms EXCEPT ![block] = nd]
                            ELSE UNCHANGED <<doms, changed>>
    /\ UNCHANGED <<cfgVars, rpo, rpo_nums, df, dfDone, viewVars, first>>

\* the end of a pass: `while changed`, lines 84-85 and 104
ComputePassEnd ==
    /\ pc = "loop"
    /\ idx > Len(rpo)
    /\ IF changed
       THEN /\ changed' = FALSE
            /\ idx' = 2
            /\ UNCHANGED <<pc, rpo_nums>>
       ELSE pc' = "computed" /\ LocalsGone
    /\ UNCHANGED <<cfgVars, doms, rpo, df, dfDone, viewVars, first>>

\* DomTree::compute_df, called after compute; the caller keeps the returned set
ComputeDF ==
    /\ pc = "computed"
    /\ ~dfDone
    /\ IF compute_df_hangs
       THEN pc' = "hang" /\ UNCHANGED <<df, dfDone, first>>
       ELSE /\ df' = compute_df
            /\ dfDone' = TRUE
            /\ pc' = pc
            /\ first' = IF ~first.set
                        THEN [set |-> TRUE, entry |-> entry, preds |-> preds, rpo |-> rpo,
                              idom |-> IdomMap, df |-> compute_df, other |-> FALSE]
                        ELSE IF SameCfg THEN first
                        ELSE [first EXCEPT !.other = TRUE]
    /\ UNCHANGED <<cfgVars, doms, rpo, rpo_nums, changed, idx, viewVars>>

\* DominatorTreeTraversable::compute
TraversalCompute ==
    /\ pc = "computed"
    /\ viewCalls < MaxViewCalls
    /\ children' = PushChildren(1, children)
    /\ viewCalls' = viewCalls + 1
    /\ UNCHANGED <<cfgVars, domVars, df, dfDone, viewStale, first>>

\* DominatorTreeTraversable::clear
TraversalClear ==
    /\ pc \in {"idle", "computed"}
    /\ viewCalls > 0
    /\ children' = EmptyChildren
    /\ viewCalls' = 0
    /\ viewStale' = FALSE
    /\ UNCHANGED <<cfgVars, domVars, df, dfDone, first>>

\* --------------------------------------------- the caller edits the function
\* The control-flow graph is rebuilt by its owner after the function changed; the
\* DomTree and the view keep what they hold until they are computed again.
Edited ==
    /\ pc' = "idle"
    /\ df' = EmptyDF
    /\ dfDone' = FALSE
    /\ ViewOutdated
    /\ UNCHANGED <<doms, rpo, rpo_nums, changed, idx, children, viewCalls, first>>

MayEdit == pc = "computed" /\ dfDone /\ first.set /\ entry # None

\* a branch to `to` is added to block `from`
CfgAddEdge ==
    /\ MayEdit /\ SameCfg
    /\ Cardinality(EdgesOf(preds)) < MaxEdges
    /\ \E e \in AllEdges \ EdgesOf(preds) :
        preds' = [preds EXCEPT ![e[2]] = Append(@, e[1])]
    /\ entry' = entry
    /\ Edited

WithoutBlock(p, d) ==
    [b \in Blocks |-> IF b = d THEN <<>> ELSE SelectSeq(p[b], LAMBDA x : x # d)]

\* block d is deleted from the function, with every edge from it and to it
CfgRemoveBlock ==
    /\ MayEdit /\ SameCfg
    /\ \E d \in Blocks \ {entry} :
        /\ WithoutBlock(preds, d) # preds
        /\ preds' = WithoutBlock(preds, d)
    /\ entry' = entry
    /\ Edited

\* the same graph is rebuilt with the predecessors of one block in another order
CfgReorderPreds ==
    /\ MayEdit
    /\ entry = first.entry /\ EdgesOf(preds) = EdgesOf(first.preds)
    /\ \E b \in Blocks : \E p \in Perms(Range(preds[b])) \ {preds[b]} :
        preds' = [preds EXCEPT ![b] = p]
    /\ entry' = entry
    /\ Edited

\* the function is put back as it was when it was first analysed
CfgRestore ==
    /\ MayEdit /\ ~SameCfg
    /\ entry' = first.entry
    /\ preds' = first.preds
    /\ Edited

\* ------------------------------------------------------------ specifications
Next ==
    \/ Clear
    \/ ComputeStart
    \/ ComputeStep
    \/ ComputePassEnd
    \/ ComputeDF
    \/ TraversalCompute
    \/ TraversalClear
    \/ CfgAddEdge
    \/ CfgRemoveBlock
    \/ CfgReorderPreds
    \/ CfgRestore

\* one DomTree used again and again on one function
NextDom ==
    \/ Clear
    \/ ComputeStart
    \/ ComputeStep
    \/ ComputePassEnd
    \/ ComputeDF

Spec == Init /\ [][NextDom]_vars

\* compute is sequential code: an enabled step of it is taken
FairSpec ==
    /\ Init
    /\ [][NextDom]_vars
    /\ WF_vars(ComputeStep)
    /\ WF_vars(ComputePassEnd)

\* one analysis, then the traversal view is built, rebuilt and cleared
FirstCompute == pc = "idle" /\ ComputeStart

NextView ==
    \/ FirstCompute
    \/ ComputeStep
    \/ ComputePassEnd
    \/ TraversalCompute
    \/ TraversalClear

SpecView == Init /\ [][NextView]_vars

\* a function of at most ReuseEdges edges, its predecessor lists in ascending order,
\* that is analysed, edited and analysed again; the view is built once per analysis
Ascending(p) == \A b \in Blocks : \A i \in 1..Len(p[b]) - 1 : p[b][i] < p[b][i + 1]

InitReuse ==
    /\ Init
    /\ entry # None
    /\ Cardinality(EdgesOf(preds)) <= ReuseEdges
    /\ Ascending(preds)

BuildView == viewCalls = 0 /\ dfDone /\ TraversalCompute

NextReuse ==
    \/ Clear
    \/ ComputeStart
    \/ ComputeStep
    \/ ComputePassEnd
    \/ ComputeDF
    \/ BuildView
    \/ CfgAddEdge
    \/ CfgRemoveBlock
    \/ CfgReorderPreds
    \/ CfgRestore

SpecReuse == InitReuse /\ [][NextReuse]_vars

\* a function that is analysed again after its predecessor lists were reordered
InitOrder == Init /\ entry # None /\ Ascending(preds)

NextOrder ==
    \/ FirstCompute
    \/ ComputeStep
    \/ ComputePassEnd
    \/ ComputeDF
    \/ CfgReorderPreds

SpecOrder == InitOrder /\ [][NextOrder]_vars

\* ------------------------------------------- dominance by the path definition
\* the blocks that a path from the blocks of S reaches without entering `avoid`
RECURSIVE Closure(_, _, _)
Closure(p, S, avoid) ==
    LET T == S \cup {s \in Blocks \ {avoid} : \E b \in S : b \in Range(p[s])}
    IN  IF T = S THEN S ELSE Closure(p, T, avoid)

ReachableIn(en, p) == IF en = None THEN {} ELSE Closure(p, {en}, None)
Reachable == ReachableIn(entry, preds)

\* every path from the entry to b passes through a (b reachable)
PathDominates(a, b) ==
    /\ b \in Reachable
    /\ (a = b \/ a = entry \/ b \notin Closure(preds, {entry}, a))

Analysed == pc = "computed" /\ entry # None

\* ---------------------------------------------------------------------- C1
\* C1: after compute, for every reachable block b other than the entry, idom_of(b)
\* is a block that strictly dominates b by the path definition, and every other
\* strict dominator of b dominates idom_of(b).
C1_IdomIsImmediateDominator ==
    Analysed =>
        \A b \in Reachable \ {entry} :
            LET d == idom_of(b)
            IN  /\ d \in Blocks
                /\ d # b
                /\ PathDominates(d, b)
                /\ \A c \in Blocks \ {b} : PathDominates(c, b) => PathDominates(c, d)

\* a merge block whose immediate dominator is none of its predecessors, in a graph
\* that also has a back edge
C1_Witness ==
    /\ Analysed
    /\ \E b \in Reachable \ {entry} :
        /\ pred_num_of(b) >= 2
        /\ idom_of(b) \in Blocks \ Range(preds_of(b))
    /\ \E b \in Reachable : \E q \in Range(preds_of(b)) : strictly_dominates(b, q)

C3_ReachableIffInRpo ==
    Analysed => \A b \in Blocks : is_reachable(b) <=> b \in Range(rpo)

\* ---------------------------------------------------------------------- C4
\* C4: after compute on a graph with no blocks the queries return without failure:
\* idom_of is None, is_reachable and strictly_dominates are false, compute_df is empty.
C4_EmptyGraphQueries ==
    (pc = "computed" /\ entry = None) =>
        /\ ~idom_of_panics
        /\ \A b \in Blocks : idom_of(b) = None /\ ~is_reachable(b)
        /\ \A a \in Blocks : \A b \in Blocks : ~strictly_dominates(a, b)
        /\ compute_df = EmptyDF

\* ---------------------------------------------------------------------- C5
FreshView == viewCalls = 1 /\ ~viewStale

InChildren(d) == \E p \in Blocks : d \in Range(children_of(p))

\* the snapshot analysed first and the present one differ by block d and its edges only,
\* and d cannot be reached in the one that has it
DiffersByUnreachable(d) ==
    /\ first.set /\ entry = first.entry /\ preds # first.preds
    /\ \/ preds = WithoutBlock(first.preds, d) /\ d \notin ReachableIn(first.entry, first.preds)
       \/ first.preds = WithoutBlock(preds, d) /\ d \notin Reachable

\* C5: a block d that cannot be reached is not is_reachable, has no idom, an empty
\* frontier set and no place in the children lists, and the idoms and frontier sets of
\* the reachable blocks are those of the graph without d and its edges.
C5_UnreachableBlockIsIgnored ==
    (Analysed /\ dfDone) =>
        /\ \A d \in Blocks \ Reachable :
            /\ ~is_reachable(d)
            /\ idom_of(d) = None
            /\ df[d] = {}
            /\ FreshView => (~InChildren(d) /\ children_of(d) = <<>>)
        /\ \A d \in Blocks \ {entry} :
            DiffersByUnreachable(d) =>
                \A b \in Reachable : idom_of(b) = first.idom[b] /\ df[b] = first.df[b]

\* ---------------------------------------------------------------------- C6
\* C6: compute terminates: once in the fixed-point loop, it reaches a pass that records
\* no change and returns.
C6_ComputeTerminates == (pc = "loop") ~> (pc = "computed")

\* the end of a pass that recorded no change, over a graph with a back edge
C6_Witness ==
    /\ pc = "loop" /\ idx > Len(rpo) /\ ~changed
    /\ Len(rpo) >= 3
    /\ \E b \in Range(rpo) : \E q \in Range(preds_of(b)) :
        q # b /\ rpo_nums[q] # 0 /\ rpo_nums[q] < rpo_nums[b]

\* ---------------------------------------------------------------------- C7
\* C7: the immediate dominators do not depend on the order of the predecessor lists:
\* the same graph with reordered lists gives the idom_of values of the first analysis.
C7_IdomIndependentOfPredOrder ==
    (Analysed /\ first.set /\ entry = first.entry
        /\ EdgesOf(preds) = EdgesOf(first.preds)) => IdomMap = first.idom

\* a reordered graph in which two recorded predecessors of a merge block were folded
C7_Witness ==
    /\ Analysed /\ first.set /\ entry = first.entry
    /\ EdgesOf(preds) = EdgesOf(first.preds)
    /\ \E b \in Reachable \ {entry} :
        /\ preds[b] # first.preds[b]
        /\ Cardinality(Range(preds[b]) \cap Reachable) >= 2
        /\ idom_of(b) \notin Range(preds[b])

\* ---------------------------------------------------------------------- C8
\* C8: compute and compute_df run again on the same DomTree, also after it was used on
\* another graph, give the RPO, the idom_of values and the frontier sets of the first run.
C8_RecomputeGivesFirstResult ==
    (pc = "computed" /\ dfDone /\ first.set /\ SameCfg) =>
        /\ rpo = first.rpo
        /\ IdomMap = first.idom
        /\ df = first.df

\* the first graph analysed again after the DomTree held the result of another graph
C8_Witness ==
    /\ pc = "computed" /\ dfDone /\ first.set /\ SameCfg
    /\ first.other
    /\ \E b \in Blocks : first.idom[b] # None
    /\ \E b \in Blocks \ Reachable : b # entry

\* ---------------------------------------------------------------------- C9
\* C9: a second DominatorTreeTraversable::compute on the same view, the DomTree
\* unchanged, leaves every children list as the first call left it.
C9_SecondViewComputeKeepsChildren ==
    [][(pc = "computed" /\ viewCalls = 1 /\ viewCalls' = 2) => children' = children]_vars

\* --------------------------------------------------------------------- C10
\* the blocks c of the RPO sequence with idom_of(c) = p, in RPO order
ChildrenInRpo(p) == SelectSeq(rpo, LAMBDA c : idom_of(c) = p)

Count(s, x) == Cardinality({i \in 1..Len(s) : s[i] = x})

\* C10: after one DominatorTreeTraversable::compute on a fresh or cleared view,
\* children_of(p) lists exactly the blocks whose idom is p, once each, in RPO order;
\* every reachable block but the entry is in exactly one list and the entry in none.
C10_ChildrenInvertIdom ==
    (pc = "computed" /\ FreshView) =>
        /\ \A p \in Blocks : children_of(p) = ChildrenInRpo(p)
        /\ \A p \in Blocks : \A c \in Blocks : Count(children_of(p), c) <= 1
        /\ \A c \in Reachable \ {entry} :
            Cardinality({p \in Blocks : c \in Range(children_of(p))}) = 1
        /\ entry # None => ~InChildren(entry)

\* a parent with two children, the later one in RPO having the smaller id
C10_Witness ==
    /\ pc = "computed" /\ FreshView
    /\ \E p \in Blocks :
        /\ Len(children_of(p)) >= 2
        /\ children_of(p)[1] > children_of(p)[2]

\* --------------------------------------------------------------------- C11
\* h has at least 2 predecessors, one of them a reachable latch that h dominates
LoopHeader(h) ==
    /\ pred_num_of(h) >= 2
    /\ \E l \in Range(preds_of(h)) : PathDominates(h, l)

\* C11: every loop header h with at least 2 predecessors whose latch it dominates is in
\* its own frontier set, whichever block of the function h is.
C11_HeaderInOwnFrontier ==
    (dfDone /\ Analysed) => \A h \in Blocks : LoopHeader(h) => in_frontier_of(h, h)

\* --------------------------------------------------------------------- C12
\* C12: after compute, strictly_dominates(entry, b) is true for every block b that is
\* reachable from the entry and is not the entry.
C12_EntryStrictlyDominatesReachable ==
    Analysed => \A b \in Reachable \ {entry} : strictly_dominates(entry, b)

\* a reachable block whose chain to the entry passes through another block
C12_Witness ==
    /\ Analysed
    /\ \E b \in Reachable \ {entry} :
        /\ idom_of(b) \notin {None, entry}
        /\ strictly_dominates(entry, b)

\* --------------------------------------------------------------------- C13
\* C13: in the DFSet returned by compute_df a block with fewer than 2 predecessors is
\* in no block's frontier set, also when its one predecessor is a back edge.
C13_NoFrontierBelowTwoPreds ==
    (dfDone /\ Analysed) =>
        \A b \in Blocks : pred_num_of(b) < 2 => \A p \in Blocks : ~in_frontier_of(b, p)

\* the entry with one predecessor, a reachable latch, while another block is in a frontier
C13_Witness ==
    /\ dfDone /\ Analysed
    /\ pred_num_of(entry) = 1
    /\ preds_of(entry)[1] \in Reachable \ {entry}
    /\ \E b \in Blocks : \E p \in Blocks : in_frontier_of(b, p)

\* --------------------------------------------------------------------- C14
\* the blocks on the chain of recorded immediate dominators that starts at b
RECURSIVE Chain(_, _)
Chain(b, steps) ==
    IF b = None THEN {}
    ELSE IF steps > NumBlocks \/ doms[b] = b THEN {b}
    ELSE {b} \cup Chain(doms[b], steps + 1)

ChainEndsAtEntry(b) == rpo[1] \in Chain(b, 0)

\* every intersect call of the fold over the predecessors ps returns a block that is on
\* the chains of both of its arguments
RECURSIVE IntersectCallsOk(_, _, _)
IntersectCallsOk(ps, pp, acc) ==
    IF ps = <<>> THEN TRUE
    ELSE IF Head(ps) # pp /\ doms[Head(ps)] # None
         THEN LET r == intersect(acc, Head(ps))
              IN  /\ r \in Chain(acc, 0) \cap Chain(Head(ps), 0)
                  /\ IntersectCallsOk(Tail(ps), pp, r)
         ELSE IntersectCallsOk(Tail(ps), pp, acc)

\* C14: at every point of the fixed-point loop every block with a recorded immediate
\* dominator has a chain of recorded immediate dominators that ends at the entry, and
\* every intersect call of compute returns a block on the chains of both arguments
\* without unwrapping an unset immediate dominator and without looping for ever.
C14_ChainsLinkedToEntry ==
    /\ pc \notin {"panic", "hang"}
    /\ pc = "loop" =>
        /\ \A b \in Blocks : doms[b] # None => ChainEndsAtEntry(b)
        /\ (idx <= Len(rpo) /\ processed_pred(rpo[idx]) # None) =>
              IntersectCallsOk(preds_of(rpo[idx]), processed_pred(rpo[idx]),
                               processed_pred(rpo[idx]))

\* a block about to be visited that has two recorded predecessors, in a partial tree
C14_Witness ==
    /\ pc = "loop" /\ idx <= Len(rpo)
    /\ processed_pred(rpo[idx]) # None
    /\ \E q \in Range(preds_of(rpo[idx])) :
        /\ q # processed_pred(rpo[idx])
        /\ doms[q] # None
        /\ intersect(processed_pred(rpo[idx]), q) # q
    /\ \E b \in Range(rpo) : doms[b] = None

\* --------------------------------------------------------------------- C15
\* C15: during compute a recorded immediate dominator is only ever replaced by a block
\* of strictly larger RPO rank that is an ancestor of the old one in the partial tree.
C15_RecordMovesTowardEntry ==
    [][pc = "loop" =>
        \A b \in Blocks :
            (doms[b] # None /\ doms'[b] # doms[b]) =>
                /\ doms'[b] # None
                /\ rpo_nums[doms'[b]] > rpo_nums[doms[b]]
                /\ doms'[b] \in Chain(doms[b], 0)]_vars

\* a later pass (the block to visit next is already recorded) in which a record changed
C15_Witness ==
    /\ pc = "loop" /\ changed
    /\ idx <= Len(rpo)
    /\ doms[rpo[idx]] # None

====
